---- MODULE Spec2Model ----
(***************************************************************************)
(* A model of zk-starter-kit: finite-field arithmetic (field.rs), the      *)
(* constraint system and its QAP accumulator (main.rs, qap.rs), the proof  *)
(* artifact (proof.rs) and the circuit builder (circuit.rs).               *)
(*                                                                         *)
(* The program computes on num_bigint::BigInt, whose / and % truncate      *)
(* toward zero (the remainder takes the sign of the dividend).  TLA+'s     *)
(* \div and % floor, so the truncating operators are written out below.    *)
(***************************************************************************)
EXTENDS Integers, Sequences, FiniteSets, TLC

\* ------------------------------------------------------------------------
\* BigInt arithmetic as num_bigint computes it
\* ------------------------------------------------------------------------

\* The modulus compiled into FieldElement::new, Proof::hash and Circuit::new.
default_modulus == 1000000007

Abs(n) == IF n < 0 THEN -n ELSE n

Sgn(n) == IF n < 0 THEN -1 ELSE IF n = 0 THEN 0 ELSE 1

\* BigInt a % b: truncated remainder, sign of the dividend.
BigRem(a, b) == Sgn(a) * (Abs(a) % Abs(b))

\* BigInt a / b: truncated quotient.
BigDiv(a, b) == Sgn(a) * Sgn(b) * (Abs(a) \div Abs(b))

\* (a * b) mod m for a, b >= 0 and m > 0, by doubling: the product of two
\* values below the modulus exceeds TLC's 32-bit integers, the BigInt
\* product does not overflow, and this computes the same number.
RECURSIVE MulMod(_, _, _)
MulMod(a, b, m) ==
    IF b = 0 THEN 0
    ELSE LET h == MulMod(a, b \div 2, m)
             d == (h + h) % m
         IN  IF b % 2 = 1 THEN (d + (a % m)) % m ELSE d

\* BigInt (a * b) % m: the truncated remainder of the exact product.
BigMulRem(a, b, m) == Sgn(a) * Sgn(b) * MulMod(Abs(a) % Abs(m), Abs(b), Abs(m))

\* ------------------------------------------------------------------------
\* field.rs: FieldElement
\* ------------------------------------------------------------------------

\* struct FieldElement { value, modulus }
FieldElement(v, m) == [value |-> v, modulus |-> m]

\* FieldElement::new: value % default_modulus, modulus = default_modulus.
FieldElement_new(value) ==
    FieldElement(BigRem(value, default_modulus), default_modulus)

\* get_value
get_value(a) == a.value

\* FieldElement::add (the moduli are equal: every element carries
\* default_modulus, so the assert_eq! never fires)
FieldElement_add(a, b) == FieldElement_new(a.value + b.value)

\* FieldElement::sub
FieldElement_sub(a, b) == FieldElement_new(a.value - b.value)

\* FieldElement::mul: new(value * other.value % modulus)
FieldElement_mul(a, b) ==
    FieldElement_new(BigMulRem(a.value, b.value, a.modulus))

\* FieldElement::negate: new(modulus - value)
FieldElement_negate(a) == FieldElement_new(a.modulus - a.value)

\* FieldElement::extended_gcd, the recursion of the source: <<gcd, x, y>>.
RECURSIVE extended_gcd(_, _)
extended_gcd(a, b) ==
    IF b = 0 THEN <<a, 1, 0>>
    ELSE LET r  == extended_gcd(b, BigRem(a, b))
             x1 == r[2]
             y1 == r[3]
         IN  <<r[1], y1, x1 - BigDiv(a, b) * y1>>

\* A plausible slip in inv: the gcd test is left out.
inv_panics_unchecked(a) == FALSE

\* FieldElement::inv panics ("Inverse does not exist") iff the computed gcd
\* is not one.
inv_panics(a) == extended_gcd(a.value, a.modulus)[1] # 1

\* FieldElement::inv when it does not panic: new(x % modulus).
FieldElement_inv(a) ==
    FieldElement_new(BigRem(extended_gcd(a.value, a.modulus)[2], a.modulus))

\* AddAssign for FieldElement: value = (value + other.value) % modulus.
add_assign(a, b) == FieldElement(BigRem(a.value + b.value, a.modulus), a.modulus)

\* Add for FieldElement (by value): clone, then +=.
FieldElement_plus(a, b) == add_assign(a, b)

\* Mul<&BigInt> for FieldElement: new((value * rhs) % modulus).
FieldElement_times(a, rhs) == FieldElement_new(BigMulRem(a.value, rhs, a.modulus))

\* ------------------------------------------------------------------------
\* qap.rs: Polynomial and QAP.  A Polynomial's coefficients (a HashMap from
\* usize to FieldElement) are a function whose domain is the set of keys.
\* ------------------------------------------------------------------------

\* Polynomial::new: no coefficients.
Polynomial_new == <<>>

\* QAP::new
QAP_new == [left |-> Polynomial_new, right |-> Polynomial_new,
            output |-> Polynomial_new]

\* HashMap::entry(index).or_insert(FieldElement::new(0))
entry_or_zero(coefficients, index) ==
    IF index \in DOMAIN coefficients THEN coefficients[index]
    ELSE FieldElement_new(0)

\* A plausible slip in the accumulation: the entry is replaced by the new
\* coefficient (what Polynomial::add_term does) instead of added to.
RECURSIVE accumulate_overwriting(_, _)
accumulate_overwriting(coefficients, coeffs) ==
    IF coeffs = <<>> THEN coefficients
    ELSE LET index == Head(coeffs)[1]
             coeff == Head(coeffs)[2]
             next  == [k \in DOMAIN coefficients \cup {index} |->
                          IF k = index THEN coeff ELSE coefficients[k]]
         IN  accumulate_overwriting(next, Tail(coeffs))

\* One loop of QAP::add_constraint:
\*   for (index, coeff) in coeffs { *entry(index).or_insert(0) += coeff }
RECURSIVE accumulate(_, _)
accumulate(coefficients, coeffs) ==
    IF coeffs = <<>> THEN coefficients
    ELSE LET index == Head(coeffs)[1]
             coeff == Head(coeffs)[2]
             sum   == add_assign(entry_or_zero(coefficients, index), coeff)
             next  == [k \in DOMAIN coefficients \cup {index} |->
                          IF k = index THEN sum ELSE coefficients[k]]
         IN  accumulate(next, Tail(coeffs))

\* QAP::add_constraint
QAP_add_constraint(qap, left_coeffs, right_coeffs, output_coeffs) ==
    [left   |-> accumulate(qap.left, left_coeffs),
     right  |-> accumulate(qap.right, right_coeffs),
     output |-> accumulate(qap.output, output_coeffs)]

\* The inner statement of Polynomial::interpolate:
\*   for k in 0..term.len() { term[k] = (term[k].0, term[k].1.mul(&coeff)) }
scale_term(term, coeff) ==
    [k \in DOMAIN term |-> <<term[k][1], FieldElement_mul(term[k][2], coeff)>>]

\* The loop over j of Polynomial::interpolate for point i, from point j on:
\* for every j # i, denom = x_i.sub(x_j).inv(), coeff = denom.mul(
\* x_j.negate()), (1, denom) is pushed, and every entry of the term, the
\* pushed one included, is multiplied by coeff.
RECURSIVE basis_term(_, _, _, _)
basis_term(points, i, j, term) ==
    IF j > Len(points) THEN term
    ELSE IF i = j THEN basis_term(points, i, j + 1, term)
    ELSE LET x_i         == points[i][1]
             x_j         == points[j][1]
             denom       == FieldElement_inv(FieldElement_sub(x_i, x_j))
             negated_x_j == FieldElement_negate(x_j)
             coeff       == FieldElement_mul(denom, negated_x_j)
         IN  basis_term(points, i, j + 1,
                        scale_term(Append(term, <<1, denom>>), coeff))

\* Whether Polynomial::interpolate panics: some x_i.sub(x_j).inv() does.
interpolate_panics(points) ==
    \E i, j \in DOMAIN points :
        i # j /\ inv_panics(FieldElement_sub(points[i][1], points[j][1]))

\* The loop over i of Polynomial::interpolate, from point i on: the term
\* starts as [(0, y_i)], and after the loop over j each of its entries is
\* added into result.coefficients at its key.
RECURSIVE interpolate_from(_, _, _)
interpolate_from(points, i, result) ==
    IF i > Len(points) THEN result
    ELSE interpolate_from(points, i + 1,
             accumulate(result,
                        basis_term(points, i, 1, << <<0, points[i][2]>> >>)))

\* Polynomial::interpolate when it does not panic.
Polynomial_interpolate(points) == interpolate_from(points, 1, Polynomial_new)

\* ------------------------------------------------------------------------
\* main.rs: Variable, Constraint, R1CS
\* ------------------------------------------------------------------------

\* struct Variable { index, value }
Variable(i, v) == [index |-> i, value |-> v]

\* struct Constraint { left, right, output, operation }: each side a
\* sequence of <<Variable, BigInt>> pairs.
Constraint(l, r, o, op) == [left |-> l, right |-> r, output |-> o, operation |-> op]

\* R1CS::new
R1CS_new == [variables |-> <<>>, constraints |-> <<>>, qap |-> QAP_new]

\* A plausible slip in add_variable: the index counts from one.
add_variable_index_from_one(r1cs) == Len(r1cs.variables) + 1

\* let index = self.variables.len(): the index add_variable assigns and
\* returns
add_variable_index(r1cs) == Len(r1cs.variables)

\* R1CS::add_variable
R1CS_add_variable(r1cs, value) ==
    [r1cs EXCEPT !.variables =
        Append(@, Variable(add_variable_index(r1cs), value))]

\* R1CS::add_constraint: the one statement of its body hands the three
\* coefficient lists to the QAP; variables and constraints are not touched.
R1CS_add_constraint(r1cs, left_coeffs, right_coeffs, output_coeffs) ==
    [r1cs EXCEPT !.qap =
        QAP_add_constraint(@, left_coeffs, right_coeffs, output_coeffs)]

\* R1CS::generate_witness: every variable's value, in order.
R1CS_generate_witness(r1cs) ==
    [i \in 1..Len(r1cs.variables) |-> r1cs.variables[i].value]

\* witness[var.index] with Rust's bounds check (sequences here start at 1).
InBounds(witness, index) == index + 1 \in DOMAIN witness

\* One side of a constraint as verify_witness evaluates it, from acc:
\*   eval = eval + (witness[var.index].clone() * coeff)
RECURSIVE side_eval(_, _, _)
side_eval(side, witness, acc) ==
    IF side = <<>> THEN acc
    ELSE LET var   == Head(side)[1]
             coeff == Head(side)[2]
         IN  side_eval(Tail(side), witness,
                 FieldElement_plus(acc,
                     FieldElement_times(witness[var.index + 1], coeff)))

\* Whether a side indexes past the witness (a panic in the source).
SideInBounds(side, witness) ==
    \A k \in DOMAIN side : InBounds(witness, side[k][1].index)

\* Whether Polynomial::evaluate stays inside the assignment: it reads
\* assignment[*index] for every key of the coefficient map, a panic when a
\* key is past the end.
Polynomial_evaluate_in_bounds(coefficients, assignment) ==
    \A index \in DOMAIN coefficients : InBounds(assignment, index)

\* Whether QAP::evaluate stays inside the assignment: it evaluates the
\* left, the right and the output polynomial.
QAP_evaluate_in_bounds(qap, assignment) ==
    /\ Polynomial_evaluate_in_bounds(qap.left, assignment)
    /\ Polynomial_evaluate_in_bounds(qap.right, assignment)
    /\ Polynomial_evaluate_in_bounds(qap.output, assignment)

\* Whether R1CS::evaluate_qap returns rather than panics: it evaluates the
\* QAP against generate_witness.
evaluate_qap_in_bounds(r1cs) ==
    QAP_evaluate_in_bounds(r1cs.qap, R1CS_generate_witness(r1cs))

\* R1CS::verify_witness over the constraint list: "true", "false", or the
\* panic of an index out of bounds.
RECURSIVE verify_witness(_, _)
verify_witness(constraints, witness) ==
    IF constraints = <<>> THEN "true"
    ELSE LET c == Head(constraints)
             zero == FieldElement_new(0)
         IN  IF ~(/\ SideInBounds(c.left, witness)
                  /\ SideInBounds(c.right, witness)
                  /\ SideInBounds(c.output, witness))
             THEN "panic: index out of bounds"
             ELSE LET left_eval   == side_eval(c.left, witness, zero)
                      right_eval  == side_eval(c.right, witness, zero)
                      output_eval == side_eval(c.output, witness, zero)
                  IN  IF left_eval # right_eval \/ right_eval # output_eval
                      THEN "false"
                      ELSE verify_witness(Tail(constraints), witness)

\* R1CS::verify_witness
R1CS_verify_witness(r1cs, witness) == verify_witness(r1cs.constraints, witness)

\* ------------------------------------------------------------------------
\* proof.rs: Proof
\* ------------------------------------------------------------------------

\* The prime written into Proof::hash.
hash_modulus == 1000000007

\* Proof::hash: (left + right) % 1_000_000_007
Proof_hash(left, right) == BigRem(left + right, hash_modulus)

\* commitment_input: the BigInt sum of a sequence of integers.
RECURSIVE BigSum(_)
BigSum(ws) == IF ws = <<>> THEN 0 ELSE Head(ws) + BigSum(Tail(ws))

\* struct Proof { witness, commitment }
Proof(w, c) == [witness |-> w, commitment |-> c]

\* A plausible slip in generate_proof: the sum is stored without the hash.
Proof_generate_proof_unhashed(r1cs, witness) ==
    LET witness_bigint == [i \in DOMAIN witness |-> get_value(witness[i])]
    IN  Proof(witness_bigint, BigSum(witness_bigint))

\* Proof::generate_proof: the values of the witness and the hash of their sum.
Proof_generate_proof(r1cs, witness) ==
    LET witness_bigint == [i \in DOMAIN witness |-> get_value(witness[i])]
    IN  Proof(witness_bigint, Proof_hash(BigSum(witness_bigint), 0))

\* R1CS::generate_proof
R1CS_generate_proof(r1cs, witness) == Proof_generate_proof(r1cs, witness)

\* One side of a constraint as verify_proof evaluates it: the BigInt sum of
\* (var.value * coeff).get_value() over the side's pairs.
RECURSIVE side_sum(_)
side_sum(side) ==
    IF side = <<>> THEN 0
    ELSE get_value(FieldElement_times(Head(side)[1].value, Head(side)[2]))
           + side_sum(Tail(side))

\* The constraint loop of Proof::verify_proof.
RECURSIVE check_constraints(_)
check_constraints(constraints) ==
    IF constraints = <<>> THEN "true"
    ELSE LET c == Head(constraints)
             left_eval   == side_sum(c.left)
             right_eval  == side_sum(c.right)
             output_eval == side_sum(c.output)
         IN  CASE c.operation = "Add" ->
                    IF left_eval + right_eval # output_eval THEN "false"
                    ELSE check_constraints(Tail(constraints))
               [] c.operation = "Mul" ->
                    IF left_eval * right_eval # output_eval THEN "false"
                    ELSE check_constraints(Tail(constraints))
               [] c.operation = "Hash" -> "panic: not yet implemented"

\* A plausible slip in verify_proof: the constraints are evaluated first and
\* the commitment compared afterwards.
Proof_verify_proof_constraints_first(proof, r1cs) ==
    LET checked == check_constraints(r1cs.constraints)
    IN  IF checked # "true" THEN checked
        ELSE IF proof.commitment # Proof_hash(BigSum(proof.witness), 0)
             THEN "false" ELSE "true"

\* Proof::verify_proof: "true", "false", or the panic of todo!().
Proof_verify_proof(proof, r1cs) ==
    LET expected_commitment == Proof_hash(BigSum(proof.witness), 0)
    IN  IF proof.commitment # expected_commitment THEN "false"
        ELSE check_constraints(r1cs.constraints)

\* ------------------------------------------------------------------------
\* circuit.rs: Circuit
\* ------------------------------------------------------------------------

\* enum Gate { Add(a, b, output), Mul(a, b, output) }
Gate(kind, a, b, output) == [kind |-> kind, a |-> a, b |-> b, output |-> output]

\* r1cs.variables[*a], r1cs.variables[*b], r1cs.variables[*output] with
\* Rust's bounds check, for every gate (add_constraint adds no variable, so
\* the length is the same at every gate).
GatesInBounds(r1cs, gates) ==
    \A k \in DOMAIN gates :
        /\ gates[k].a < Len(r1cs.variables)
        /\ gates[k].b < Len(r1cs.variables)
        /\ gates[k].output < Len(r1cs.variables)

\* The gate loop of Circuit::generate_proof: both arms issue the same call,
\* three single-pair lists with coefficient FieldElement::new(1).
RECURSIVE add_gates(_, _)
add_gates(r1cs, gates) ==
    IF gates = <<>> THEN r1cs
    ELSE LET g   == Head(gates)
             one == FieldElement_new(1)
         IN  add_gates(
                 R1CS_add_constraint(r1cs,
                     << <<r1cs.variables[g.a + 1].index, one>> >>,
                     << <<r1cs.variables[g.b + 1].index, one>> >>,
                     << <<r1cs.variables[g.output + 1].index, one>> >>),
                 Tail(gates))

\* The variable loop of Circuit::generate_proof.
RECURSIVE add_inputs(_, _)
add_inputs(r1cs, ins) ==
    IF ins = <<>> THEN r1cs
    ELSE add_inputs(R1CS_add_variable(r1cs, Head(ins)), Tail(ins))

\* The witness Circuit::verify_proof rebuilds from the proof it read:
\* FieldElement::new of every stored integer.
witness_of(proof) ==
    [i \in DOMAIN proof.witness |-> FieldElement_new(proof.witness[i])]

\* ------------------------------------------------------------------------
\* merkle.rs: MerkleTree
\* ------------------------------------------------------------------------

\* The prime written into MerkleTree::hash.
merkle_modulus == 1000000007

\* MerkleTree::hash: (left + right) % 1_000_000_007
MerkleTree_hash(left, right) == BigRem(left + right, merkle_modulus)

\* nodes.chunks(2).map(..).collect(): a pair is hashed, a single last node
\* is carried forward.
RECURSIVE next_level(_)
next_level(nodes) ==
    IF nodes = <<>> THEN <<>>
    ELSE IF Len(nodes) = 1 THEN <<nodes[1]>>
    ELSE <<MerkleTree_hash(nodes[1], nodes[2])>>
             \o next_level(SubSeq(nodes, 3, Len(nodes)))

\* MerkleTree::compute_root, for a non-empty list (nodes[0] of an empty one
\* panics): levels are folded until one node is left.
RECURSIVE compute_root(_)
compute_root(nodes) ==
    IF Len(nodes) > 1 THEN compute_root(next_level(nodes)) ELSE nodes[1]

\* A plausible slip in merkle_path: the sibling is always the next node.
sibling_index_next(current_index) == current_index + 1

\* The sibling of merkle_path: the next node of an even index, the previous
\* node of an odd one.
sibling_index(current_index) ==
    IF current_index % 2 = 0 THEN current_index + 1 ELSE current_index - 1

\* The loop of MerkleTree::merkle_path: while more than one node is left,
\* the sibling (when there is one) is pushed with the flag
\* current_index % 2 == 0, the index is halved, the level is folded.
RECURSIVE merkle_path_from(_, _, _)
merkle_path_from(nodes, current_index, path) ==
    IF Len(nodes) > 1
    THEN LET sibling == sibling_index(current_index)
             pushed  == IF sibling < Len(nodes)
                        THEN Append(path, <<nodes[sibling + 1],
                                            current_index % 2 = 0>>)
                        ELSE path
         IN  merkle_path_from(next_level(nodes), current_index \div 2, pushed)
    ELSE path

\* MerkleTree::merkle_path(index)
merkle_path(tree_leaves, index) == merkle_path_from(tree_leaves, index, <<>>)

\* ------------------------------------------------------------------------
\* State
\* ------------------------------------------------------------------------

VARIABLES
    \* a session of field arithmetic: three bindings, the last operation,
    \* its receiver, whether it panicked, and the number of operations run
    fa, fb, fc, fop, farg, fpanic, fsteps,
    \* a constraint system under construction: the R1CS, the arguments of
    \* every add_constraint call so far, the stage of the session, the proof
    \* generated, the witness handed to verify_witness, the verdict, and
    \* the index every add_variable call returned
    r1cs, calls, phase, proof, checked, verdict, returned,
    \* a proof and a constraint system under verification, the outcome of
    \* Proof::verify_proof and the outcome of verify_witness on them
    vproof, vr1cs, vresult, vwresult,
    \* the circuit builder: its fields, the two artifacts on disk (<<>> when
    \* the file does not exist), the stage, whether the proof artifact was
    \* edited after it was written, a panic message and the verdict
    inputs, gates, outputs, r1cs_file, proof_file, cphase, tampered, cpanic,
    cverdict,
    \* a Merkle tree (its leaves and root), whether merkle_path was called,
    \* the index it was called with and the path it returned
    leaves, root, mcalled, mindex, mpath,
    \* one call of Polynomial::interpolate: the points, the coefficients
    \* returned, and whether it has run ("none", "done", "panic")
    points, interp, istatus

fieldVars == <<fa, fb, fc, fop, farg, fpanic, fsteps>>

r1csVars == <<r1cs, calls, phase, proof, checked, verdict, returned>>

verifyVars == <<vproof, vr1cs, vresult, vwresult>>

circuitVars == <<inputs, gates, outputs, r1cs_file, proof_file, cphase,
                 tampered, cpanic, cverdict>>

merkleVars == <<leaves, root, mcalled, mindex, mpath>>

interpVars == <<points, interp, istatus>>

vars == <<fieldVars, r1csVars, verifyVars, circuitVars, merkleVars, interpVars>>

\* ------------------------------------------------------------------------
\* Bounds
\* ------------------------------------------------------------------------

\* Operations run in one field session.
MaxFieldOps == 2

\* Variables registered in one constraint system.
MaxVars == 2

\* add_constraint calls on one constraint system.
MaxConstraints == 2

\* Entries of the witness of a proof handed to Proof::verify_proof.
MaxWitness == 2

\* Constraints of the system handed to Proof::verify_proof.
MaxVerifyConstraints == 2

\* Inputs, gates and outputs of one circuit.
MaxInputs == 2

MaxGates == 1

MaxOutputs == 1

\* Leaves of a Merkle tree.
MaxLeaves == 5

\* Points handed to Polynomial::interpolate.
MaxPoints == 2

\* Integers handed to FieldElement::new.
FieldInputs == {0, 1, 2, 3, default_modulus - 1, default_modulus + 5}

\* Values of the variables of a constraint system, and of the witnesses
\* handed to verify_witness.
VarValues == {FieldElement_new(v) : v \in {3, 4, 700000000}}

\* The coefficient lists of one add_constraint call: a gate-shaped call, calls
\* that repeat an index inside a list, coefficients that wrap the modulus,
\* and calls whose sides agree for some witnesses and not for others.
Pair(index, c) == <<index, FieldElement_new(c)>>

ConstraintInputs ==
    { [left |-> <<Pair(0, 1)>>, right |-> <<Pair(1, 1)>>, output |-> <<Pair(2, 1)>>],
      [left |-> <<Pair(0, 1), Pair(0, 1)>>, right |-> <<Pair(1, default_modulus - 1)>>,
       output |-> <<Pair(0, 2)>>],
      [left |-> <<Pair(1, 2)>>, right |-> <<Pair(0, 1)>>,
       output |-> <<Pair(1, 1), Pair(0, default_modulus - 1)>>],
      [left |-> <<Pair(0, 1)>>, right |-> <<Pair(0, 1)>>, output |-> <<Pair(0, 1)>>],
      [left |-> <<Pair(0, 1)>>, right |-> <<Pair(1, 1)>>, output |-> <<Pair(0, 1)>>] }

\* Sequences over S of length at most n.
SeqUpTo(S, n) == UNION {[1..k -> S] : k \in 0..n}

\* ------------------------------------------------------------------------
\* Initial values of the parts a specification does not exercise
\* ------------------------------------------------------------------------

FieldIdle ==
    /\ fa = FieldElement_new(0) /\ fb = FieldElement_new(0)
    /\ fc = FieldElement_new(0) /\ fop = "new" /\ farg = FieldElement_new(0)
    /\ fpanic = FALSE /\ fsteps = 0

R1CSIdle ==
    /\ r1cs = R1CS_new /\ calls = <<>> /\ phase = "build"
    /\ proof = <<>> /\ checked = <<>> /\ verdict = "none"
    /\ returned = <<>>

VerifyIdle ==
    /\ vproof = Proof(<<>>, 0) /\ vr1cs = R1CS_new /\ vresult = "none"
    /\ vwresult = "none"

CircuitIdle ==
    /\ inputs = <<>> /\ gates = <<>> /\ outputs = <<>>
    /\ r1cs_file = <<>> /\ proof_file = <<>> /\ cphase = "build"
    /\ tampered = FALSE /\ cpanic = "none" /\ cverdict = "none"

MerkleIdle ==
    /\ leaves = <<0>> /\ root = 0 /\ mcalled = FALSE /\ mindex = 0
    /\ mpath = <<>>

InterpIdle == points = <<>> /\ interp = Polynomial_new /\ istatus = "none"

\* ------------------------------------------------------------------------
\* The field session
\* ------------------------------------------------------------------------

FieldInit ==
    /\ fa \in {FieldElement_new(v) : v \in FieldInputs}
    /\ fb \in {FieldElement_new(v) : v \in FieldInputs}
    /\ fc \in {FieldElement_new(v) : v \in FieldInputs}
    /\ fop = "new"
    /\ farg = fa
    /\ fpanic = FALSE
    /\ fsteps = 0
    /\ R1CSIdle /\ VerifyIdle /\ CircuitIdle /\ MerkleIdle /\ InterpIdle

FieldRunning == ~fpanic /\ fsteps < MaxFieldOps

notField == <<r1csVars, verifyVars, circuitVars, merkleVars, interpVars>>

\* let a = FieldElement::new(v)
DoNew ==
    /\ FieldRunning
    /\ \E v \in FieldInputs : fa' = FieldElement_new(v)
    /\ fop' = "new" /\ farg' = fa /\ fsteps' = fsteps + 1
    /\ UNCHANGED <<fb, fc, fpanic, notField>>

\* let a = a.add(&r)
DoAdd ==
    /\ FieldRunning
    /\ \E r \in {fa, fb, fc} : fa' = FieldElement_add(fa, r)
    /\ fop' = "add" /\ farg' = fa /\ fsteps' = fsteps + 1
    /\ UNCHANGED <<fb, fc, fpanic, notField>>

\* let a = a.sub(&r)
DoSub ==
    /\ FieldRunning
    /\ \E r \in {fa, fb, fc} : fa' = FieldElement_sub(fa, r)
    /\ fop' = "sub" /\ farg' = fa /\ fsteps' = fsteps + 1
    /\ UNCHANGED <<fb, fc, fpanic, notField>>

\* let a = a.mul(&r)
DoMul ==
    /\ FieldRunning
    /\ \E r \in {fa, fb, fc} : fa' = FieldElement_mul(fa, r)
    /\ fop' = "mul" /\ farg' = fa /\ fsteps' = fsteps + 1
    /\ UNCHANGED <<fb, fc, fpanic, notField>>

\* let a = a.negate()
DoNegate ==
    /\ FieldRunning
    /\ fa' = FieldElement_negate(fa)
    /\ fop' = "negate" /\ farg' = fa /\ fsteps' = fsteps + 1
    /\ UNCHANGED <<fb, fc, fpanic, notField>>

\* let a = a.inv(): the panic unwinds, nothing is bound and the session ends
DoInv ==
    /\ FieldRunning
    /\ IF inv_panics(fa)
       THEN fpanic' = TRUE /\ fa' = fa
       ELSE fpanic' = FALSE /\ fa' = FieldElement_inv(fa)
    /\ fop' = "inv" /\ farg' = fa /\ fsteps' = fsteps + 1
    /\ UNCHANGED <<fb, fc, notField>>

\* let c = b; let b = a  (a result bound for use as a later operand)
DoBind ==
    /\ FieldRunning
    /\ fb' = fa /\ fc' = fb
    /\ fop' = "bind" /\ farg' = fa /\ fsteps' = fsteps + 1
    /\ UNCHANGED <<fa, fpanic, notField>>

FieldNext == DoNew \/ DoAdd \/ DoSub \/ DoMul \/ DoNegate \/ DoInv \/ DoBind

SpecField == FieldInit /\ [][FieldNext]_vars

\* ------------------------------------------------------------------------
\* The constraint-system session: build, then either check a witness or
\* generate a proof and verify it
\* ------------------------------------------------------------------------

Init ==
    /\ FieldIdle /\ R1CSIdle /\ VerifyIdle /\ CircuitIdle /\ MerkleIdle
    /\ InterpIdle

notR1CS == <<fieldVars, verifyVars, circuitVars, merkleVars, interpVars>>

\* r1cs.add_variable(value)
AddVariable ==
    /\ phase = "build"
    /\ Len(r1cs.variables) < MaxVars
    /\ \E value \in VarValues : r1cs' = R1CS_add_variable(r1cs, value)
    /\ returned' = Append(returned, add_variable_index(r1cs))
    /\ UNCHANGED <<calls, phase, proof, checked, verdict, notR1CS>>

\* r1cs.add_constraint(left_coeffs, right_coeffs, output_coeffs, modulus)
AddConstraint ==
    /\ phase = "build"
    /\ Len(calls) < MaxConstraints
    /\ \E c \in ConstraintInputs :
          /\ r1cs' = R1CS_add_constraint(r1cs, c.left, c.right, c.output)
          /\ calls' = Append(calls, c)
    /\ UNCHANGED <<phase, proof, checked, verdict, returned, notR1CS>>

\* r1cs.verify_witness(witness), for a witness with one value per variable
VerifyWitness ==
    /\ phase = "build"
    /\ \E witness \in [1..Len(r1cs.variables) -> VarValues] :
          /\ checked' = witness
          /\ verdict' = R1CS_verify_witness(r1cs, witness)
    /\ phase' = "checked"
    /\ UNCHANGED <<r1cs, calls, proof, returned, notR1CS>>

\* let witness = r1cs.generate_witness(); r1cs.generate_proof(&witness)
GenerateProof ==
    /\ phase = "build"
    /\ proof' = <<R1CS_generate_proof(r1cs, R1CS_generate_witness(r1cs))>>
    /\ phase' = "proved"
    /\ UNCHANGED <<r1cs, calls, checked, verdict, returned, notR1CS>>

\* Proof::verify_proof(&proof, &r1cs)
VerifyProof ==
    /\ phase = "proved"
    /\ verdict' = Proof_verify_proof(proof[1], r1cs)
    /\ phase' = "verified"
    /\ UNCHANGED <<r1cs, calls, proof, checked, returned, notR1CS>>

Next == AddVariable \/ AddConstraint \/ VerifyWitness \/ GenerateProof \/ VerifyProof

Spec == Init /\ [][Next]_vars

\* ------------------------------------------------------------------------
\* Claims about the field (checked under SpecField)
\* ------------------------------------------------------------------------

\* The greatest common divisor of two naturals (Euclid), the mathematical
\* notion the claims speak of; the program's own is extended_gcd.
RECURSIVE Gcd(_, _)
Gcd(a, b) == IF b = 0 THEN a ELSE Gcd(b, a % b)

Coprime(a) == Gcd(Abs(a.value), a.modulus) = 1

One == FieldElement(1, default_modulus)

\* C1: every FieldElement obtained from new or from add, sub, mul, inv and
\* negate applied to such elements has 0 <= value < modulus.
C1_ValueInRange ==
    \A e \in {fa, fb, fc} : 0 <= e.value /\ e.value < e.modulus

\* C2: for every element a with a nonzero value coprime to the modulus,
\* a.inv() succeeds and a.mul(a.inv()) is the element of value 1.  Stated
\* here of the receivers that are themselves in [1, modulus), so that a
\* violation does not rest on an operand that C1 already rules out.
C2_InverseIsIdentity ==
    (/\ fop = "inv"
     /\ 0 < farg.value /\ farg.value < farg.modulus
     /\ Coprime(farg))
        => (~fpanic /\ FieldElement_mul(farg, fa) = One)

\* C3: inv applied to an element with gcd(value, modulus) # 1, in particular
\* to every element of value 0, panics and binds no FieldElement.
C3_NonInvertiblePanics ==
    (fop = "inv" /\ ~Coprime(farg)) => (fpanic /\ fa = farg)

\* C3's case: inv has run on an element of value 0 and has panicked.
C3_Witness == fop = "inv" /\ farg.value = 0 /\ fpanic /\ fsteps > 0

\* C4: add and mul are commutative and associative, with equality on
\* (value, modulus).
C4_CommutativeAssociative ==
    /\ FieldElement_add(fa, fb) = FieldElement_add(fb, fa)
    /\ FieldElement_mul(fa, fb) = FieldElement_mul(fb, fa)
    /\ FieldElement_add(FieldElement_add(fa, fb), fc)
         = FieldElement_add(fa, FieldElement_add(fb, fc))
    /\ FieldElement_mul(FieldElement_mul(fa, fb), fc)
         = FieldElement_mul(fa, FieldElement_mul(fb, fc))

\* ------------------------------------------------------------------------
\* Claims about the constraint system and the proof (checked under Spec)
\* ------------------------------------------------------------------------

\* C5: the constraint list and the QAP stay in lock-step: after n
\* add_constraint calls the constraints list holds exactly n records.
C5_LockStep == Len(r1cs.constraints) = Len(calls)

\* A linear combination (index, coefficient) evaluated against a witness in
\* the field: the sum of coefficient * witness[index].
RECURSIVE Dot(_, _)
Dot(coeffs, witness) ==
    IF coeffs = <<>> THEN FieldElement_new(0)
    ELSE FieldElement_add(
             Dot(SubSeq(coeffs, 1, Len(coeffs) - 1), witness),
             FieldElement_mul(coeffs[Len(coeffs)][2],
                              witness[coeffs[Len(coeffs)][1] + 1]))

\* The indices of an add_constraint call all address the witness.
Addresses(c, witness) ==
    \A side \in {c.left, c.right, c.output} :
        \A k \in DOMAIN side : InBounds(witness, side[k][1])

\* The sides of an added constraint agree under a witness.
SidesAgree(c, witness) ==
    /\ Dot(c.left, witness) = Dot(c.right, witness)
    /\ Dot(c.right, witness) = Dot(c.output, witness)

\* C6: verify_witness returns true for a witness that satisfies every
\* constraint added through add_constraint, and false for a witness under
\* which the sides of at least one added constraint disagree.
C6_VerifyWitnessDecides ==
    (/\ phase = "checked"
     /\ \A k \in DOMAIN calls : Addresses(calls[k], checked))
        => /\ (\A k \in DOMAIN calls : SidesAgree(calls[k], checked))
                  => verdict = "true"
           /\ (\E k \in DOMAIN calls : ~SidesAgree(calls[k], checked))
                  => verdict = "false"

\* The coefficients a list supplies for index k, in order.
RECURSIVE CoeffsFor(_, _)
CoeffsFor(coeffs, k) ==
    IF coeffs = <<>> THEN <<>>
    ELSE (IF Head(coeffs)[1] = k THEN <<Head(coeffs)[2]>> ELSE <<>>)
            \o CoeffsFor(Tail(coeffs), k)

\* The coefficients all the calls supplied for index k on one side, in order.
RECURSIVE Supplied(_, _, _)
Supplied(cs, side, k) ==
    IF cs = <<>> THEN <<>>
    ELSE CoeffsFor(Head(cs)[side], k) \o Supplied(Tail(cs), side, k)

\* The field sum of a sequence of elements, from zero, in order.
RECURSIVE FieldSum(_)
FieldSum(es) ==
    IF es = <<>> THEN FieldElement_new(0)
    ELSE FieldElement_add(FieldSum(SubSeq(es, 1, Len(es) - 1)), es[Len(es)])

Sides == {"left", "right", "output"}

\* Every index a call may name.
Indices ==
    UNION {{c[side][k][1] : k \in DOMAIN c[side]} :
              c \in ConstraintInputs, side \in Sides}

\* C7: for each side and each index k, the QAP polynomial's coefficient at k
\* is the field sum of every coefficient supplied for k on that side over
\* all calls (duplicates inside one call included); a key is present exactly
\* when something was supplied for it, so nothing is overwritten or removed.
C7_QapAdditive ==
    \A side \in Sides : \A k \in Indices :
        LET supplied == Supplied(calls, side, k)
            poly     == r1cs.qap[side]
        IN  /\ DOMAIN poly \subseteq Indices
            /\ IF supplied = <<>> THEN k \notin DOMAIN poly
               ELSE k \in DOMAIN poly /\ poly[k] = FieldSum(supplied)

\* C7's case: two calls, and an index that received three coefficients, two
\* of them from one call and one from the other.
C7_Witness ==
    /\ Len(calls) = 2
    /\ \E side \in Sides : \E k \in DOMAIN r1cs.qap[side] :
          /\ Len(Supplied(calls, side, k)) = 3
          /\ CoeffsFor(calls[1][side], k) # <<>>
          /\ CoeffsFor(calls[2][side], k) # <<>>

\* C8: Proof::verify_proof applied to the unmodified result of
\* Proof::generate_proof (on the witness of generate_witness) and the same
\* constraint system returns true.
C8_ProofRoundTrip == phase = "verified" => verdict = "true"

\* C8's case: a verified round trip of a system with variables and an added
\* constraint, whose witness sum passes the modulus.
C8_Witness ==
    /\ phase = "verified" /\ verdict = "true"
    /\ Len(r1cs.variables) >= 2 /\ Len(calls) >= 1
    /\ BigSum(proof[1].witness) >= hash_modulus

\* ------------------------------------------------------------------------
\* One call of Proof::verify_proof on a proof and a constraint system as a
\* verifier may be handed them (both are plain data with public fields,
\* read back from files)
\* ------------------------------------------------------------------------

\* Entries of the witness of a proof under verification.
WitnessInputs == {-1, 3, 4, 700000000}

\* A side holding one <<Variable, BigInt>> pair with coefficient 1.
Side(index, value) == << <<Variable(index, FieldElement_new(value)), 1>> >>

\* Constraints of a system under verification: a satisfied and an
\* unsatisfied product, a satisfied sum, and two Hash-tagged constraints,
\* one over three variables and one naming the same variable on every side.
VerifyConstraints ==
    { Constraint(Side(0, 3), Side(1, 4), Side(2, 12), "Mul"),
      Constraint(Side(0, 3), Side(1, 4), Side(2, 13), "Mul"),
      Constraint(Side(0, 3), Side(1, 4), Side(2, 7), "Add"),
      Constraint(Side(0, 3), Side(1, 4), Side(2, 7), "Hash"),
      Constraint(Side(0, 3), Side(0, 3), Side(0, 3), "Hash") }

\* Commitments stored with a witness: the one generate_proof writes, the
\* bare sum, and an edited one.
Commitments(w) ==
    {Proof_hash(BigSum(w), 0), BigSum(w), Proof_hash(BigSum(w), 0) + 1}

VerifyInit ==
    /\ \E w \in SeqUpTo(WitnessInputs, MaxWitness) :
          \E c \in Commitments(w) : vproof = Proof(w, c)
    /\ \E cs \in SeqUpTo(VerifyConstraints, MaxVerifyConstraints) :
          vr1cs = [R1CS_new EXCEPT !.constraints = cs]
    /\ vresult = "none" /\ vwresult = "none"
    /\ FieldIdle /\ R1CSIdle /\ CircuitIdle /\ MerkleIdle /\ InterpIdle

notVerify == <<fieldVars, r1csVars, circuitVars, merkleVars, interpVars>>

\* Proof::verify_proof(&proof, &r1cs)
CallVerifyProof ==
    /\ vresult = "none"
    /\ vresult' = Proof_verify_proof(vproof, vr1cs)
    /\ UNCHANGED <<vproof, vr1cs, vwresult, notVerify>>

\* r1cs.verify_witness(&witness), the witness rebuilt from the proof as
\* Circuit::verify_proof rebuilds it
CallVerifyWitness ==
    /\ vwresult = "none"
    /\ vwresult' = R1CS_verify_witness(vr1cs, witness_of(vproof))
    /\ UNCHANGED <<vproof, vr1cs, vresult, notVerify>>

VerifyNext == CallVerifyProof \/ CallVerifyWitness

SpecVerify == VerifyInit /\ [][VerifyNext]_vars

\* ------------------------------------------------------------------------
\* The circuit builder: build, generate_proof, then verify_proof, with the
\* proof artifact open to edits in between
\* ------------------------------------------------------------------------

\* Values registered as inputs and outputs.
CircuitValues == {FieldElement_new(v) : v \in {3, 4, 12}}

\* Gates added to a circuit.
CircuitGates == {Gate("Mul", 0, 1, 2), Gate("Mul", 0, 1, 1), Gate("Add", 0, 0, 0)}

\* Integers written over an entry of the persisted witness.
TamperValues == {3, 5, 13}

CircuitInit ==
    /\ FieldIdle /\ R1CSIdle /\ VerifyIdle /\ CircuitIdle /\ MerkleIdle
    /\ InterpIdle

notCircuit == <<fieldVars, r1csVars, verifyVars, merkleVars, interpVars>>

\* circuit.add_input(value)
add_input ==
    /\ cphase = "build" /\ Len(inputs) < MaxInputs
    /\ \E value \in CircuitValues : inputs' = Append(inputs, value)
    /\ UNCHANGED <<gates, outputs, r1cs_file, proof_file, cphase, tampered,
                   cpanic, cverdict, notCircuit>>

\* circuit.add_gate(gate)
add_gate ==
    /\ cphase = "build" /\ Len(gates) < MaxGates
    /\ \E gate \in CircuitGates : gates' = Append(gates, gate)
    /\ UNCHANGED <<inputs, outputs, r1cs_file, proof_file, cphase, tampered,
                   cpanic, cverdict, notCircuit>>

\* circuit.set_output(value)
set_output ==
    /\ cphase = "build" /\ Len(outputs) < MaxOutputs
    /\ \E value \in CircuitValues : outputs' = Append(outputs, value)
    /\ UNCHANGED <<inputs, gates, r1cs_file, proof_file, cphase, tampered,
                   cpanic, cverdict, notCircuit>>

\* Circuit::generate_proof without its test of self.inputs.is_empty().
Circuit_generate_proof_unguarded ==
    /\ cphase = "build"
    /\ LET with_inputs == add_inputs(R1CS_new, inputs)
       IN  IF ~GatesInBounds(with_inputs, gates)
           THEN /\ cpanic' = "index out of bounds"
                /\ cphase' = "panicked"
                /\ UNCHANGED <<r1cs_file, proof_file>>
           ELSE LET built   == add_gates(with_inputs, gates)
                    witness == R1CS_generate_witness(built)
                IN  /\ r1cs_file' = <<built>>
                    /\ proof_file' = <<R1CS_generate_proof(built, witness)>>
                    /\ cphase' = "proved"
                    /\ UNCHANGED cpanic
    /\ UNCHANGED <<inputs, gates, outputs, tampered, cverdict, notCircuit>>

\* Circuit::generate_proof: panic on no inputs; build the R1CS from the
\* inputs and the gates (an index past the variables panics); write the
\* R1CS artifact; generate the witness and the proof; write the proof
\* artifact.  A panic ends the program before either write.
Circuit_generate_proof ==
    /\ cphase = "build"
    /\ LET with_inputs == add_inputs(R1CS_new, inputs)
       IN  IF inputs = <<>>
           THEN /\ cpanic' = "No inputs available to generate proof."
                /\ cphase' = "panicked"
                /\ UNCHANGED <<r1cs_file, proof_file>>
           ELSE IF ~GatesInBounds(with_inputs, gates)
           THEN /\ cpanic' = "index out of bounds"
                /\ cphase' = "panicked"
                /\ UNCHANGED <<r1cs_file, proof_file>>
           ELSE LET built   == add_gates(with_inputs, gates)
                    witness == R1CS_generate_witness(built)
                IN  /\ r1cs_file' = <<built>>
                    /\ proof_file' = <<R1CS_generate_proof(built, witness)>>
                    /\ cphase' = "proved"
                    /\ UNCHANGED cpanic
    /\ UNCHANGED <<inputs, gates, outputs, tampered, cverdict, notCircuit>>

\* An edit of the proof artifact between the two runs: one entry of the
\* persisted witness is replaced by a different value, the commitment is
\* left as written.
TamperWitness ==
    /\ cphase = "proved" /\ ~tampered
    /\ \E i \in DOMAIN proof_file[1].witness : \E v \in TamperValues :
          /\ v # proof_file[1].witness[i]
          /\ proof_file' = <<[proof_file[1] EXCEPT !.witness[i] = v]>>
    /\ tampered' = TRUE
    /\ UNCHANGED <<inputs, gates, outputs, r1cs_file, cphase, cpanic,
                   cverdict, notCircuit>>

\* Circuit::verify_proof: read the proof artifact (a panic when there is
\* none), rebuild the witness with FieldElement::new, load the R1CS artifact,
\* return verify_witness.
Circuit_verify_proof ==
    /\ cphase \in {"build", "proved"}
    /\ IF proof_file = <<>>
       THEN /\ cpanic' = "Could not read proof file"
            /\ cphase' = "panicked"
            /\ UNCHANGED cverdict
       ELSE IF r1cs_file = <<>>
       THEN /\ cpanic' = "Could not open file"
            /\ cphase' = "panicked"
            /\ UNCHANGED cverdict
       ELSE /\ cverdict' = R1CS_verify_witness(r1cs_file[1],
                                               witness_of(proof_file[1]))
            /\ cphase' = "verified"
            /\ UNCHANGED cpanic
    /\ UNCHANGED <<inputs, gates, outputs, r1cs_file, proof_file, tampered,
                   notCircuit>>

CircuitNext ==
    \/ add_input \/ add_gate \/ set_output
    \/ Circuit_generate_proof \/ TamperWitness \/ Circuit_verify_proof

SpecCircuit == CircuitInit /\ [][CircuitNext]_vars

\* ------------------------------------------------------------------------
\* A Merkle tree built by MerkleTree::new, then one call of merkle_path
\* ------------------------------------------------------------------------

\* Leaf values: a negative one, small ones, one past the prime of the hash.
LeafValues == {-1, 2, 5, merkle_modulus + 5}

\* MerkleTree::new(leaves) for every non-empty leaf list.
MerkleInit ==
    /\ \E ls \in SeqUpTo(LeafValues, MaxLeaves) :
          /\ ls # <<>>
          /\ leaves = ls
          /\ root = compute_root(ls)
    /\ mcalled = FALSE /\ mindex = 0 /\ mpath = <<>>
    /\ FieldIdle /\ R1CSIdle /\ VerifyIdle /\ CircuitIdle /\ InterpIdle

notMerkle == <<fieldVars, r1csVars, verifyVars, circuitVars, interpVars>>

\* tree.merkle_path(index), for an index into the leaves
CallMerklePath ==
    /\ ~mcalled
    /\ \E index \in 0..(Len(leaves) - 1) :
          /\ mindex' = index
          /\ mpath' = merkle_path(leaves, index)
    /\ mcalled' = TRUE
    /\ UNCHANGED <<leaves, root, notMerkle>>

MerkleNext == CallMerklePath

SpecMerkle == MerkleInit /\ [][MerkleNext]_vars

\* ------------------------------------------------------------------------
\* One call of Polynomial::interpolate
\* ------------------------------------------------------------------------

\* Coordinates of the points.
PointXs == {0, 1, 2, 5}

PointYs == {0, 1, 7}

\* Lists of points whose x-coordinates are pairwise distinct.
PointLists ==
    {ps \in SeqUpTo({<<FieldElement_new(x), FieldElement_new(y)>> :
                         x \in PointXs, y \in PointYs}, MaxPoints) :
        \A i, j \in DOMAIN ps : i # j => ps[i][1] # ps[j][1]}

InterpInit ==
    /\ points \in PointLists
    /\ interp = Polynomial_new /\ istatus = "none"
    /\ FieldIdle /\ R1CSIdle /\ VerifyIdle /\ CircuitIdle /\ MerkleIdle

notInterp == <<fieldVars, r1csVars, verifyVars, circuitVars, merkleVars>>

\* Polynomial::interpolate(&points, &modulus)
CallInterpolate ==
    /\ istatus = "none"
    /\ IF interpolate_panics(points)
       THEN istatus' = "panic" /\ UNCHANGED interp
       ELSE istatus' = "done" /\ interp' = Polynomial_interpolate(points)
    /\ UNCHANGED <<points, notInterp>>

InterpNext == CallInterpolate

SpecInterp == InterpInit /\ [][InterpNext]_vars

\* ------------------------------------------------------------------------
\* Claims about proof verification (SpecVerify) and the builder (SpecCircuit)
\* ------------------------------------------------------------------------

\* The sum of the witness modulo 1,000,000,007, the remainder being the one
\* BigInt's % yields (it differs from the floor modulus for a negative sum).
SumMod(w) ==
    IF BigSum(w) >= 0 THEN BigSum(w) % 1000000007
    ELSE -((-BigSum(w)) % 1000000007)

\* C9: Proof::verify_proof returns false whenever the stored commitment
\* differs from the sum of proof.witness mod 1,000,000,007, before any
\* constraint is evaluated: whatever constraints the system holds, Hash-tagged
\* ones included, the outcome is false and not a panic.
C9_MismatchFailsFirst ==
    (vresult # "none" /\ vproof.commitment # SumMod(vproof.witness))
        => vresult = "false"

\* C9's case: a mismatched commitment verified against a system whose first
\* constraint is Hash-tagged.
C9_Witness ==
    /\ vresult = "false"
    /\ vproof.commitment # SumMod(vproof.witness)
    /\ vr1cs.constraints # <<>>
    /\ vr1cs.constraints[1].operation = "Hash"

\* C10: after generate_proof has persisted a proof, changing one entry of
\* the persisted witness makes the builder's verify_proof return false.
C10_TamperDetected ==
    (cphase = "verified" /\ tampered) => cverdict = "false"

\* A Hash-tagged constraint reaches evaluation in Proof::verify_proof: the
\* commitment matches and every constraint before it is satisfied.
HashReachedInVerifyProof ==
    /\ vproof.commitment = Proof_hash(BigSum(vproof.witness), 0)
    /\ \E k \in DOMAIN vr1cs.constraints :
          /\ vr1cs.constraints[k].operation = "Hash"
          /\ check_constraints(SubSeq(vr1cs.constraints, 1, k - 1)) = "true"

\* A Hash-tagged constraint reaches evaluation in verify_witness: every
\* constraint before it is satisfied by the witness, and the witness covers
\* the variables the Hash-tagged constraint names.
HashReachedInVerifyWitness ==
    \E k \in DOMAIN vr1cs.constraints :
        /\ vr1cs.constraints[k].operation = "Hash"
        /\ verify_witness(SubSeq(vr1cs.constraints, 1, k - 1),
                          witness_of(vproof)) = "true"
        /\ SideInBounds(vr1cs.constraints[k].left, witness_of(vproof))
        /\ SideInBounds(vr1cs.constraints[k].right, witness_of(vproof))
        /\ SideInBounds(vr1cs.constraints[k].output, witness_of(vproof))

\* C11: a Hash-tagged constraint is never silently accepted: when one reaches
\* evaluation in Proof::verify_proof or in verify_witness, the operation ends
\* in the unsupported-operation failure and does not return true.
C11_HashNeverAccepted ==
    /\ (vresult # "none" /\ HashReachedInVerifyProof)
          => vresult = "panic: not yet implemented"
    /\ (vwresult # "none" /\ HashReachedInVerifyWitness)
          => vwresult = "panic: not yet implemented"

\* The circuit of the scenario: inputs 3 and 4 at indices 0 and 1, one
\* Mul(0, 1, 2) gate, output value 12.
Scenario ==
    /\ inputs = <<FieldElement_new(3), FieldElement_new(4)>>
    /\ gates = <<Gate("Mul", 0, 1, 2)>>
    /\ outputs = <<FieldElement_new(12)>>

\* Circuit::generate_proof has run (verify_proof was not called in its place).
GenerateProofRan ==
    cphase # "build" /\ cpanic # "Could not read proof file"

\* C13: on the scenario circuit generate_proof completes without a failure
\* and the verify_proof that follows it returns true.
C13_ScenarioVerifies ==
    (Scenario /\ GenerateProofRan) =>
        /\ cphase \in {"proved", "verified"}
        /\ cpanic = "none"
        /\ (cphase = "verified" /\ ~tampered) => cverdict = "true"

\* C14: generate_proof on a circuit with no inputs panics with the
\* no-inputs message, whatever gates and outputs were added, and leaves the
\* constraint-system artifact and the proof artifact unwritten.
C14_EmptyCircuitFailsFast ==
    [][(Circuit_generate_proof /\ inputs = <<>>) =>
          /\ cphase' = "panicked"
          /\ cpanic' = "No inputs available to generate proof."
          /\ UNCHANGED <<r1cs_file, proof_file>>]_vars

\* generate_proof has panicked on a circuit that has a gate and an output
\* but no input; neither artifact exists.
C14_Witness ==
    /\ inputs = <<>> /\ gates # <<>> /\ outputs # <<>>
    /\ cphase = "panicked"
    /\ cpanic = "No inputs available to generate proof."
    /\ r1cs_file = <<>> /\ proof_file = <<>>

\* C15: variable indices are sequential and stable: the k-th add_variable
\* call (from 0) returned k, variables[i].index = i for every i, and no step
\* removes, reorders or changes a variable registered before it.
C15_IndicesSequentialStable ==
    /\ [](/\ Len(returned) = Len(r1cs.variables)
          /\ \A k \in DOMAIN returned : returned[k] = k - 1
          /\ \A i \in DOMAIN r1cs.variables : r1cs.variables[i].index = i - 1)
    /\ [][/\ Len(r1cs'.variables) >= Len(r1cs.variables)
          /\ \A i \in DOMAIN r1cs.variables :
                r1cs'.variables[i] = r1cs.variables[i]]_vars

\* C15's case: two variables registered and an add_constraint call made.
C15_Witness ==
    /\ Len(r1cs.variables) >= 2 /\ returned = <<0, 1>> /\ Len(calls) >= 1

\* The variable indices a constraint list names.
ConstraintIndices(constraints) ==
    UNION {{c[side][k][1].index : k \in DOMAIN c[side]} :
              c \in {constraints[n] : n \in DOMAIN constraints},
              side \in Sides}

\* The keys of the three QAP polynomials.
QapKeys(qap) == DOMAIN qap.left \cup DOMAIN qap.right \cup DOMAIN qap.output

\* The indices of the variables present.
VariableIndices(variables) ==
    {variables[i].index : i \in DOMAIN variables}

\* C16: every variable index that a constraint names or that is a key of a
\* QAP polynomial is the index of a variable in variables, so evaluate_qap
\* never reads past the witness.
C16_IndicesExist ==
    /\ ConstraintIndices(r1cs.constraints)
           \subseteq VariableIndices(r1cs.variables)
    /\ QapKeys(r1cs.qap) \subseteq VariableIndices(r1cs.variables)
    /\ evaluate_qap_in_bounds(r1cs)

\* The replay of a Merkle path from a node: each entry combines the current
\* node with the sibling, the current node on the left when the flag is set.
RECURSIVE Replay(_, _)
Replay(current, path) ==
    IF path = <<>> THEN current
    ELSE LET sibling == Head(path)[1]
             is_left == Head(path)[2]
         IN  Replay(IF is_left THEN MerkleTree_hash(current, sibling)
                    ELSE MerkleTree_hash(sibling, current),
                    Tail(path))

\* The number of levels above the leaves of a tree with n leaves.
RECURSIVE Height(_)
Height(n) == IF n <= 1 THEN 0 ELSE 1 + Height((n + 1) \div 2)

\* C12: Merkle round trip: replaying merkle_path(i) from leaves[i] yields
\* the root compute_root gave for the leaves, for every non-empty leaf list
\* and every index into it.
C12_MerkleRoundTrip ==
    mcalled => /\ root = compute_root(leaves)
               /\ Replay(leaves[mindex + 1], mpath) = root

\* C12's case: a path of a last leaf that was carried forward on two odd
\* levels without a path entry, over leaves that are not all equal.
C12_Witness ==
    /\ mcalled /\ Len(leaves) = 5 /\ mindex = 4
    /\ Len(mpath) < Height(Len(leaves))
    /\ \E i, j \in DOMAIN leaves : leaves[i] # leaves[j]
    /\ Replay(leaves[mindex + 1], mpath) = root

\* The residue of an integer in 0 .. default_modulus - 1.
Residue(v) == v % default_modulus

\* x to the power d, as a residue.
RECURSIVE PowMod(_, _)
PowMod(x, d) ==
    IF d = 0 THEN 1
    ELSE MulMod(PowMod(x, d - 1), Residue(x), default_modulus)

\* The value at x of the polynomial whose coefficient of x^d is the entry at
\* key d, as a residue.
RECURSIVE PolyAt(_, _, _)
PolyAt(coefficients, keys, x) ==
    IF keys = {} THEN 0
    ELSE LET d == CHOOSE k \in keys : TRUE
         IN  (MulMod(Residue(coefficients[d].value), PowMod(x, d),
                     default_modulus)
              + PolyAt(coefficients, keys \ {d}, x)) % default_modulus

\* C17: the coefficient map Polynomial::interpolate returns, for points
\* with pairwise distinct x, is the polynomial of degree below the number of
\* points that takes the value y_i at every x_i, key d holding the
\* coefficient of x^d.
C17_InterpolatesPoints ==
    istatus = "done" =>
        /\ DOMAIN interp \subseteq 0..(Len(points) - 1)
        /\ \A i \in DOMAIN points :
              PolyAt(interp, DOMAIN interp, points[i][1].value)
                  = Residue(points[i][2].value)

====
